---- MODULE Spec2Model ----
(***************************************************************************)
(* A model of the fail2ban replay/metrics scripts:                         *)
(*   scripts/replay.py           parse_syslog_timestamp, read_log_lines,   *)
(*                               emit_line, replay, main                   *)
(*   scripts/collect_fail2ban.py load_actions, compute_metrics,            *)
(*                               compute_detection_times,                  *)
(*                               compute_block_durations, update_history   *)
(*   scripts/action_logger.py    main                                      *)
(* Every component has its own specification (SpecSource, SpecReplay,      *)
(* SpecBlock, SpecDetect, SpecHistory, SpecRace, SpecConfusion, SpecLoad,  *)
(* SpecRoundTrip); the variables of the components a specification does    *)
(* not exercise stay at their idle values.                                 *)
(***************************************************************************)
EXTENDS Integers, Sequences, FiniteSets, TLC

\* ------------------------------------------------------------------------
\* Bounds of the model
\* ------------------------------------------------------------------------
\* largest time of day (in seconds after midnight) a log line carries
MaxTod == 1
\* largest number of raw lines of a replayed log file
MaxFileLines == 3
\* largest number of LogLines handed to replay
MaxLines == 3
\* largest timestamp (seconds on the time line) of a LogLine handed to replay
MaxTs == 2
\* largest --speed-factor
MaxSpeed == 2
\* largest --sleep-cap
MaxCap == 1
\* largest number of events of an action log whose block durations are computed
MaxEvents == 3
\* largest timestamp (seconds on the time line) of an action event
MaxEvTs == 2
\* largest number of events of an action log whose detection times are computed
MaxDetEvents == 2
\* largest first_ts (seconds on the time line) of a ground-truth row
MaxFirstTs == 1
\* largest number of runs of the metrics tool against one history file
MaxRuns == 3
\* largest detection_seconds.avg of a run entry
MaxAvg == 1
\* largest number of events of an action log whose confusion matrix is computed
MaxConfEvents == 2
\* largest number of lines of an action log file that load_actions reads
MaxLogLines == 2
\* largest number of calls of the action logging hook on one action log
MaxHookCalls == 1

VARIABLES
    \* --- replay.py: read_log_lines / parse_syslog_timestamp --------------
    file,          \* the raw lines of the log file, in file order
    start_year,    \* read_log_lines' start_year argument
    ip_filter,     \* read_log_lines' ip_filter argument
    pos,           \* index of the next raw line the file handle hands out
    previous_ts,   \* read_log_lines' previous_ts
    year_hint,     \* read_log_lines' year_hint
    yielded,       \* the LogLines yielded so far
    src_pc,        \* idle | reading | exhausted | ValueError
    runs,          \* the finished reads: [file, ip_filter, yielded, outcome]
    probe,         \* the last direct call of parse_syslog_timestamp
    \* --- replay.py: replay / emit_line / main ----------------------------
    lines,         \* replay's lines argument: the LogLines, in order
    speed_factor,  \* --speed-factor
    sleep_cap,     \* --sleep-cap
    status_interval, \* --status-interval
    dry_run,       \* --dry-run
    max_lines,     \* --max-lines (PyNone when not given)
    it,            \* index of the next LogLine the iterator hands out
    emitted,       \* replay's emitted counter
    last_ts,       \* replay's last_ts (PyNone before the first line)
    slept,         \* per loop pass: the time.sleep call it made, if any
    sink_calls,    \* the subprocess.run calls: [raw, ok]
    stdout,        \* the lines print() wrote in dry-run mode
    stderr,        \* the [replay] messages: [kind, emitted]
    ret,           \* what replay returned to main
    exit_code,     \* the exit status of the process (-1: still running)
    rp_pc,         \* idle | loop | after_loop | returned | CalledProcessError
    \* --- collect_fail2ban.py: compute_block_durations / detection times --
    actions,       \* the ActionEvents, in action-log (file) order
    truth,         \* the ground truth table
    scan,          \* sorted(actions, key=timestamp), the list being scanned
    bi,            \* index of the next event of the scan
    bans,          \* compute_block_durations' bans: pending bans per ip
    durations,     \* compute_block_durations' durations per ip
    blk_pc,        \* idle | scan | returned
    first_ban,     \* compute_detection_times' first_ban
    detection_seconds, \* compute_detection_times' result
    det_pc,        \* idle | first_bans | latencies | returned
    \* --- collect_fail2ban.py: compute_metrics, the confusion matrix ------
    labels,        \* the ground truth's label_norm per src_ip
    banned_ips,    \* compute_metrics' banned_ips
    confusion,     \* true_positive, false_positive, false_negative, true_negative
    rates,         \* tpr, fpr, accuracy
    cm_pc,         \* idle | counts | rates | returned
    \* --- collect_fail2ban.py: update_history in two concurrent runs ------
    race_entry,    \* per run: its run_entry
    race_history,  \* per run: update_history's history list
    race_pc,       \* per run: idle | exists | read | open | write | done
                   \*          | JSONDecodeError
    truncated,     \* the history file is open for writing and still empty
    \* --- action_logger.py: main; collect_fail2ban.py: load_actions -------
    action_log,    \* the lines of the action log file, in file order
    loaded,        \* what load_actions did: [outcome, events]
    \* --- collect_fail2ban.py: update_history / main ----------------------
    history_file,  \* the history file: [exists, entries]
    run_entry,     \* the RunEntry of the running invocation
    history,       \* update_history's history list
    repeatability, \* update_history's repeatability dict
    metrics_out,   \* the metrics output payloads written so far
    invocations,   \* how many runs of the metrics tool were started
    hist_pc        \* idle | read | write | stats | returned | StatisticsError

srcVars == <<file, start_year, ip_filter, pos, previous_ts, year_hint,
             yielded, src_pc, runs, probe>>

rpVars == <<lines, speed_factor, sleep_cap, status_interval, dry_run,
            max_lines, it, emitted, last_ts, slept, sink_calls, stdout,
            stderr, ret, exit_code, rp_pc>>

mxVars == <<actions, truth, scan, bi, bans, durations, blk_pc, first_ban,
            detection_seconds, det_pc>>

histVars == <<history_file, run_entry, history, repeatability, metrics_out,
              invocations, hist_pc>>

cmVars == <<labels, banned_ips, confusion, rates, cm_pc>>

raceVars == <<race_entry, race_history, race_pc, truncated>>

logVars == <<action_log, loaded>>

vars == <<srcVars, rpVars, mxVars, histVars, cmVars, raceVars, logVars>>

notSrcVars == <<rpVars, mxVars, histVars, cmVars, raceVars, logVars>>
notRpVars == <<srcVars, mxVars, histVars, cmVars, raceVars, logVars>>
notMxVars == <<srcVars, rpVars, histVars, cmVars, raceVars, logVars>>
notHistVars == <<srcVars, rpVars, mxVars, cmVars, raceVars, logVars>>
notCmVars == <<srcVars, rpVars, mxVars, histVars, raceVars, logVars>>
notRaceVars == <<srcVars, rpVars, mxVars, cmVars, logVars>>
notLogVars == <<srcVars, rpVars, mxVars, histVars, cmVars, raceVars>>

\* ------------------------------------------------------------------------
\* Optional[int] values
\* ------------------------------------------------------------------------
PyNone == [is_none |-> TRUE, int |-> 0]
PyInt(n) == [is_none |-> FALSE, int |-> n]

\* Python truthiness of Optional[int]
TruthyInt(v) == ~v.is_none /\ v.int # 0

\* ------------------------------------------------------------------------
\* datetime.datetime, as far as replay.py uses it
\* ------------------------------------------------------------------------
\* Python's None where a datetime is optional
None == [year |-> 0, month |-> 0, day |-> 0, tod |-> 0]

\* the ValueError a failed parse or an impossible date raises
ValueError == [year |-> -1, month |-> 0, day |-> 0, tod |-> 0]

SYSLOG_MONTHS ==
    ("Jan" :> 1) @@ ("Feb" :> 2) @@ ("Mar" :> 3) @@ ("Apr" :> 4) @@
    ("May" :> 5) @@ ("Jun" :> 6) @@ ("Jul" :> 7) @@ ("Aug" :> 8) @@
    ("Sep" :> 9) @@ ("Oct" :> 10) @@ ("Nov" :> 11) @@ ("Dec" :> 12)

IsLeap(y) == y % 4 = 0 /\ (y % 100 # 0 \/ y % 400 = 0)

DaysInMonth(y, m) ==
    IF m = 2 THEN (IF IsLeap(y) THEN 29 ELSE 28)
    ELSE IF m \in {4, 6, 9, 11} THEN 30 ELSE 31

\* datetime(year, month, day, ...): raises ValueError for a day the month
\* does not have
datetime(y, m, d, t) ==
    IF d \in 1..DaysInMonth(y, m)
    THEN [year |-> y, month |-> m, day |-> d, tod |-> t]
    ELSE ValueError

\* datetime.replace(year=y): builds a new datetime, so Feb 29 moved into a
\* common year raises ValueError
replace_year(dt, y) == datetime(y, dt.month, dt.day, dt.tod)

\* datetime.__lt__
DtLess(a, b) ==
    \/ a.year < b.year
    \/ a.year = b.year /\ a.month < b.month
    \/ a.year = b.year /\ a.month = b.month /\ a.day < b.day
    \/ a.year = b.year /\ a.month = b.month /\ a.day = b.day /\ a.tod < b.tod

\* ------------------------------------------------------------------------
\* replay.py: parse_syslog_timestamp
\* A raw line is [month, day, tod, has_ip, blank]: the month token at
\* offset 0, the day at offset 4, the time at offset 7, whether the text
\* contains the filter address, and whether the line is blank.
\* ------------------------------------------------------------------------
\* mutant: the rollover advances from the year hint, not from previous.year
parse_rollover_from_hint(line, current_year, previous) ==
    IF line.month \notin DOMAIN SYSLOG_MONTHS THEN ValueError
    ELSE LET candidate == datetime(current_year, SYSLOG_MONTHS[line.month],
                                   line.day, line.tod)
         IN  IF candidate = ValueError THEN ValueError
             ELSE IF previous # None
             THEN IF /\ DtLess(candidate, previous)
                     /\ SYSLOG_MONTHS[line.month] = 1
                     /\ previous.month = 12
                  THEN replace_year(candidate, current_year + 1)
                  ELSE IF candidate.year < previous.year
                  THEN replace_year(candidate, previous.year)
                  ELSE candidate
             ELSE candidate

\* mutant: the stale-hint branch (elif candidate.year < previous.year) is lost
parse_no_stale_fix(line, current_year, previous) ==
    IF line.month \notin DOMAIN SYSLOG_MONTHS THEN ValueError
    ELSE LET candidate == datetime(current_year, SYSLOG_MONTHS[line.month],
                                   line.day, line.tod)
         IN  IF candidate = ValueError THEN ValueError
             ELSE IF previous # None
             THEN IF /\ DtLess(candidate, previous)
                     /\ SYSLOG_MONTHS[line.month] = 1
                     /\ previous.month = 12
                  THEN replace_year(candidate, previous.year + 1)
                  ELSE candidate
             ELSE candidate

parse_syslog_timestamp(line, current_year, previous) ==
    IF line.month \notin DOMAIN SYSLOG_MONTHS THEN ValueError
    ELSE LET candidate == datetime(current_year, SYSLOG_MONTHS[line.month],
                                   line.day, line.tod)
         IN  IF candidate = ValueError THEN ValueError
             ELSE IF previous # None
             THEN IF /\ DtLess(candidate, previous)
                     /\ SYSLOG_MONTHS[line.month] = 1
                     /\ previous.month = 12
                  THEN replace_year(candidate, previous.year + 1)
                  ELSE IF candidate.year < previous.year
                  THEN replace_year(candidate, previous.year)
                  ELSE candidate
             ELSE candidate

\* ------------------------------------------------------------------------
\* replay.py: read_log_lines
\* ------------------------------------------------------------------------
\* ip_filter=None (argparse default)
NoFilter == "None"

\* the address --filter-ip names
FilterIp == "10.0.0.5"

\* Python truthiness of Optional[str]
Truthy(s) == s # NoFilter /\ s # ""

\* ip_filter in raw
Contains(raw, s) == s = "" \/ (s = FilterIp /\ raw.has_ip)

\* One pass of the loop body over raw: what the iteration does.
\*   skip  - continue (blank line, or filtered out)
\*   raise - parse_syslog_timestamp raised
\*   yield - a LogLine is yielded, previous_ts and year_hint move on
\* mutant: the timestamp is parsed before the filter is applied
read_step_parse_first(raw, flt, prev, hint) ==
    IF raw.blank THEN [kind |-> "skip", ts |-> None]
    ELSE LET timestamp == parse_syslog_timestamp(raw, hint, prev)
         IN  IF timestamp = ValueError
             THEN [kind |-> "raise", ts |-> None]
             ELSE IF Truthy(flt) /\ ~Contains(raw, flt)
             THEN [kind |-> "skip", ts |-> None]
             ELSE [kind |-> "yield", ts |-> timestamp]

read_step(raw, flt, prev, hint) ==
    IF raw.blank THEN [kind |-> "skip", ts |-> None]
    ELSE IF Truthy(flt) /\ ~Contains(raw, flt)
    THEN [kind |-> "skip", ts |-> None]
    ELSE LET timestamp == parse_syslog_timestamp(raw, hint, prev)
         IN  IF timestamp = ValueError
             THEN [kind |-> "raise", ts |-> None]
             ELSE [kind |-> "yield", ts |-> timestamp]

\* --- the inputs the model draws ------------------------------------------
TimesOfDay == 0..MaxTod

BlankLine == [month |-> "", day |-> 0, tod |-> 0, has_ip |-> FALSE, blank |-> TRUE]

\* the raw lines of the modelled log files
FileLineSet ==
    { [month |-> m, day |-> d, tod |-> 0, has_ip |-> h, blank |-> FALSE] :
        m \in {"Jan", "Dec"}, d \in {1, 31}, h \in BOOLEAN }
    \cup { [month |-> m, day |-> 1, tod |-> 0, has_ip |-> h, blank |-> FALSE] :
        m \in {"Feb", "Xyz"}, h \in BOOLEAN }
    \cup { BlankLine }

SeqsUpTo(S, n) == UNION { [1..k -> S] : k \in 0..n }

Files == SeqsUpTo(FileLineSet, MaxFileLines)

StartYears == {2023, 2024}

FilterSet == {NoFilter, "", FilterIp}

\* the lines, hints and previous timestamps parse_syslog_timestamp is
\* called with directly
Years == 2023..2025

ProbeLines ==
    { [month |-> m, day |-> d, tod |-> t, has_ip |-> FALSE, blank |-> FALSE] :
        m \in {"Jan", "Feb", "Dec", "Xyz"}, d \in {1, 29, 31}, t \in TimesOfDay }

ProbePrevious ==
    { datetime(y, m, d, t) :
        y \in Years, m \in {1, 2, 12}, d \in {1, 29, 31}, t \in TimesOfDay }
    \ { ValueError }

NoProbe == [line |-> BlankLine, current_year |-> 0, previous |-> None,
            result |-> None]

\* the file with the lines the filter drops deleted
RECURSIVE DeleteFiltered(_, _)
DeleteFiltered(f, flt) ==
    IF f = <<>> THEN <<>>
    ELSE IF Truthy(flt) /\ ~Contains(Head(f), flt)
    THEN DeleteFiltered(Tail(f), flt)
    ELSE <<Head(f)>> \o DeleteFiltered(Tail(f), flt)

\* --- state and actions -----------------------------------------------------
\* ------------------------------------------------------------------------
\* Idle values of the metrics and history components
\* ------------------------------------------------------------------------
\* float values, as exact fractions with a positive denominator
Rat(n, d) == [num |-> n, den |-> d]
RatLe(a, b) == a.num * b.den <= b.num * a.den
RatEq(a, b) == a.num * b.den = b.num * a.den
RatMin(a, b) == IF RatLe(a, b) THEN a ELSE b
RatMax(a, b) == IF RatLe(a, b) THEN b ELSE a

\* the addresses of the modelled logs and ground truth
Addresses == {"10.0.0.5", "10.0.0.6"}

NoEvents == [ip \in Addresses |-> <<>>]

NoRow == [label_norm |-> "absent", first_ts_parsed |-> 0]

NoValues == [ip \in Addresses |-> PyNone]

NoEntry == [run_id |-> 0,
            metrics |-> [detection_seconds |-> [count |-> 0, avg |-> 0],
                         accuracy |-> 0]]

Missing == [present |-> FALSE, sq |-> Rat(0, 1)]
Key(r) == [present |-> TRUE, sq |-> r]

NoRepeatability == [detection_seconds_std |-> Missing, accuracy_std |-> Missing]

\* the metrics engine not running
IdleDetect ==
    /\ truth = [ip \in Addresses |-> NoRow]
    /\ first_ban = NoValues
    /\ detection_seconds = NoValues
    /\ det_pc = "idle"

IdleBlock ==
    /\ actions = <<>>
    /\ scan = <<>>
    /\ bi = 1
    /\ bans = NoEvents
    /\ durations = NoEvents
    /\ blk_pc = "idle"

\* the history tracker not running
IdleHistory ==
    /\ history_file = [exists |-> FALSE, entries |-> <<>>]
    /\ run_entry = NoEntry
    /\ history = <<>>
    /\ repeatability = NoRepeatability
    /\ metrics_out = <<>>
    /\ invocations = 0
    /\ hist_pc = "idle"

\* the addresses of the ground truth of the confusion matrix
TruthAddresses == {"10.0.0.1", "10.0.0.2", "10.0.0.3", "10.0.0.4"}

NoConfusion == [true_positive |-> 0, false_positive |-> 0,
                false_negative |-> 0, true_negative |-> 0]

NoRates == [tpr |-> Rat(0, 1), fpr |-> Rat(0, 1), accuracy |-> Rat(0, 1)]

\* compute_metrics not running
IdleConfusion ==
    /\ labels = [ip \in TruthAddresses |-> "absent"]
    /\ banned_ips = {}
    /\ confusion = NoConfusion
    /\ rates = NoRates
    /\ cm_pc = "idle"

\* the two metrics runs that share one history file
ConcurrentRuns == {1, 2}

\* no concurrent runs
IdleRace ==
    /\ race_entry = [r \in ConcurrentRuns |-> NoEntry]
    /\ race_history = [r \in ConcurrentRuns |-> <<>>]
    /\ race_pc = [r \in ConcurrentRuns |-> "idle"]
    /\ truncated = FALSE

\* load_actions not called yet
NotLoaded == [outcome |-> "not called", events |-> <<>>]

\* no action log written or read
IdleLog ==
    /\ action_log = <<>>
    /\ loaded = NotLoaded

\* replay not running
IdleReplay ==
    /\ lines = <<>>
    /\ speed_factor = 1
    /\ sleep_cap = 0
    /\ status_interval = 0
    /\ dry_run = FALSE
    /\ max_lines = PyNone
    /\ it = 1
    /\ emitted = 0
    /\ last_ts = PyNone
    /\ slept = <<>>
    /\ sink_calls = <<>>
    /\ stdout = <<>>
    /\ stderr = <<>>
    /\ ret = PyNone
    /\ exit_code = -1
    /\ rp_pc = "idle"

IdleSource ==
    /\ file = <<>>
    /\ start_year = 0
    /\ ip_filter = NoFilter
    /\ pos = 1
    /\ previous_ts = None
    /\ year_hint = 0
    /\ yielded = <<>>
    /\ src_pc = "idle"
    /\ runs = <<>>
    /\ probe = NoProbe

\* a direct call parse_syslog_timestamp(line, current_year, previous)
ParseCall ==
    /\ src_pc = "idle"
    /\ probe = NoProbe
    /\ \E line \in ProbeLines, y \in Years, p \in ProbePrevious \cup {None} :
          probe' = [line |-> line, current_year |-> y, previous |-> p,
                    result |-> parse_syslog_timestamp(line, y, p)]
    /\ UNCHANGED <<file, start_year, ip_filter, pos, previous_ts, year_hint,
                   yielded, src_pc, runs>>
    /\ UNCHANGED notSrcVars

\* read_log_lines(path, start_year, ip_filter): lines 149-151
OpenLog ==
    /\ src_pc = "idle"
    /\ probe = NoProbe
    /\ \E f \in Files, y \in StartYears, flt \in FilterSet :
          /\ file' = f
          /\ start_year' = y
          /\ ip_filter' = flt
          /\ year_hint' = y
    /\ pos' = 1
    /\ previous_ts' = None
    /\ yielded' = <<>>
    /\ src_pc' = "reading"
    /\ UNCHANGED <<runs, probe>>
    /\ UNCHANGED notSrcVars

RunRecord(outcome) ==
    [file |-> file, ip_filter |-> ip_filter, yielded |-> yielded,
     outcome |-> outcome]

\* one iteration of `for raw in handle`: lines 152-160
ReadLine ==
    /\ src_pc = "reading"
    /\ pos <= Len(file)
    /\ LET step == read_step(file[pos], ip_filter, previous_ts, year_hint)
       IN  /\ pos' = pos + 1
           /\ IF step.kind = "yield"
              THEN /\ previous_ts' = step.ts
                   /\ year_hint' = step.ts.year
                   /\ yielded' = Append(yielded,
                                   [raw |-> file[pos], timestamp |-> step.ts])
                   /\ UNCHANGED <<src_pc, runs>>
              ELSE IF step.kind = "raise"
              THEN /\ src_pc' = "ValueError"
                   /\ runs' = Append(runs, RunRecord("ValueError"))
                   /\ UNCHANGED <<previous_ts, year_hint, yielded>>
              ELSE UNCHANGED <<previous_ts, year_hint, yielded, src_pc, runs>>
    /\ UNCHANGED <<file, start_year, ip_filter, probe>>
    /\ UNCHANGED notSrcVars

\* the handle is exhausted: the generator returns
EndOfFile ==
    /\ src_pc = "reading"
    /\ pos > Len(file)
    /\ src_pc' = "exhausted"
    /\ runs' = Append(runs, RunRecord("exhausted"))
    /\ UNCHANGED <<file, start_year, ip_filter, pos, previous_ts, year_hint,
                   yielded, probe>>
    /\ UNCHANGED notSrcVars

\* the same log read again, without a filter, from the file with the
\* filtered-out lines deleted
OpenReference ==
    /\ src_pc \in {"exhausted", "ValueError"}
    /\ Len(runs) = 1
    /\ file' = DeleteFiltered(file, ip_filter)
    /\ ip_filter' = NoFilter
    /\ year_hint' = start_year
    /\ pos' = 1
    /\ previous_ts' = None
    /\ yielded' = <<>>
    /\ src_pc' = "reading"
    /\ UNCHANGED <<start_year, runs, probe>>
    /\ UNCHANGED notSrcVars

InitSource == IdleSource /\ IdleReplay /\ IdleBlock /\ IdleDetect /\ IdleHistory
    /\ IdleConfusion /\ IdleRace /\ IdleLog

NextSource ==
    \/ ParseCall
    \/ OpenLog
    \/ ReadLine
    \/ EndOfFile
    \/ OpenReference

SpecSource == InitSource /\ [][NextSource]_vars

\* --- claims about parse_syslog_timestamp and read_log_lines ---------------
\* the timestamp of the i-th yielded LogLine, and what the read carried into
\* the parse of that line
TsOf(i) == yielded[i].timestamp
HintAt(i) == IF i = 1 THEN start_year ELSE TsOf(i - 1).year
PrevAt(i) == IF i = 1 THEN None ELSE TsOf(i - 1)

\* the three cases as the claim words them, on the bare fields
C8_Claimed(line, current_year, previous) ==
    LET m == SYSLOG_MONTHS[line.month]
        candidate == [year |-> current_year, month |-> m, day |-> line.day,
                      tod |-> line.tod]
    IN  IF previous # None /\ DtLess(candidate, previous) /\ m = 1
           /\ previous.month = 12
        THEN [candidate EXCEPT !.year = previous.year + 1]
        ELSE IF previous # None /\ current_year < previous.year
        THEN [candidate EXCEPT !.year = previous.year]
        ELSE candidate

\* C8: whenever parse_syslog_timestamp returns a timestamp, it is the
\* candidate with year previous.year + 1 in the rollover case (candidate
\* before previous, candidate in January, previous in December), with year
\* previous.year when the candidate's year is less than previous.year, and
\* the candidate unchanged otherwise; and read_log_lines carries the
\* resolved year on: each yielded timestamp is the parse of its line under
\* the preceding yielded timestamp and that timestamp's year, so the year
\* advances by exactly one at a December to January transition and stays
\* there for the following lines.
C8_RolloverRule ==
    /\ probe # NoProbe /\ probe.result # ValueError
          => probe.result = C8_Claimed(probe.line, probe.current_year,
                                       probe.previous)
    /\ \A i \in 1..Len(yielded) :
          TsOf(i) = C8_Claimed(yielded[i].raw, HintAt(i), PrevAt(i))
    /\ \A i \in 2..Len(yielded) :
          TsOf(i).year = IF TsOf(i - 1).month = 12 /\ TsOf(i).month = 1
                         THEN TsOf(i - 1).year + 1
                         ELSE TsOf(i - 1).year

\* C8 witness: a read starting in 2024 has yielded Dec 31, then Jan 01
\* resolved to 2025, then a further line resolved to 2025
C8_Witness ==
    /\ start_year = 2024
    /\ Len(yielded) = 3
    /\ TsOf(1) = [year |-> 2024, month |-> 12, day |-> 31, tod |-> 0]
    /\ TsOf(2) = [year |-> 2025, month |-> 1, day |-> 1, tod |-> 0]
    /\ TsOf(3) = [year |-> 2025, month |-> 1, day |-> 31, tod |-> 0]

\* C9: the resolved year never goes backward: a timestamp returned by
\* parse_syslog_timestamp for a previous timestamp has a year >=
\* previous.year, whatever the current_year hint, and the years of
\* consecutive LogLines yielded by read_log_lines are non-decreasing.
C9_YearNeverBackward ==
    /\ probe # NoProbe /\ probe.result # ValueError /\ probe.previous # None
          => probe.result.year >= probe.previous.year
    /\ \A i \in 2..Len(yielded) : TsOf(i).year >= TsOf(i - 1).year

\* C9 witness: a direct call with a stale hint (current_year below
\* previous.year) and no rollover pattern returned a timestamp in
\* previous.year
C9_Witness ==
    /\ probe # NoProbe
    /\ probe.previous # None
    /\ probe.current_year < probe.previous.year
    /\ probe.line.month = "Jan"
    /\ probe.previous.month = 1
    /\ probe.result # ValueError
    /\ probe.result.year = probe.previous.year

\* position of a raw line within its year
InYearLe(a, b) ==
    LET ma == SYSLOG_MONTHS[a.month]
        mb == SYSLOG_MONTHS[b.month]
    IN  \/ ma < mb
        \/ ma = mb /\ a.day < b.day
        \/ ma = mb /\ a.day = b.day /\ a.tod <= b.tod

\* the yielded lines i..j are non-decreasing within one year
OneYear(i, j) ==
    \A n \in i..(j - 1) : InYearLe(yielded[n].raw, yielded[n + 1].raw)

\* the retained lines are those of a log whose true event times are
\* non-decreasing and cross exactly one New Year boundary: up to some line k
\* they lie in start_year, the following ones in start_year + 1
OneBoundaryLog ==
    \E k \in 1..(Len(yielded) - 1) :
        OneYear(1, k) /\ OneYear(k + 1, Len(yielded))

\* C17: for a log whose true event times are non-decreasing and which
\* crosses exactly one New Year boundary, read with the correct year hint
\* for its first retained line, the timestamps yielded by read_log_lines are
\* non-decreasing, so that replay computes no negative delta, whatever the
\* month of the first retained line after the boundary.
C17_MonotoneAcrossNewYear ==
    (src_pc = "exhausted" /\ OneBoundaryLog) =>
        \A i \in 2..Len(yielded) : ~DtLess(TsOf(i), TsOf(i - 1))

\* C10: filtering happens before timestamp parsing and a skipped line leaves
\* previous_ts and the year hint alone: the read of a file with a filter
\* yields the same LogLines, and ends the same way, as the read without a
\* filter of the file with the non-matching lines deleted; so a skipped
\* line with an unparseable timestamp raises no error.
C10_FilterBeforeParse ==
    Len(runs) = 2 =>
        /\ runs[1].yielded = runs[2].yielded
        /\ runs[1].outcome = runs[2].outcome

\* C10 witness: a filtered read skipped a non-matching line with an
\* unparseable month and a non-matching December line, yielded two lines
\* and ended normally, and the reference read has finished too
C10_Witness ==
    /\ Len(runs) = 2
    /\ runs[1].ip_filter = FilterIp
    /\ runs[1].outcome = "exhausted"
    /\ Len(runs[1].yielded) = 1
    /\ \E i, j \in 1..Len(runs[1].file) :
          /\ runs[1].file[i].month = "Xyz" /\ ~runs[1].file[i].has_ip
          /\ runs[1].file[j].month = "Dec" /\ ~runs[1].file[j].has_ip
          /\ j < Len(runs[1].file)
          /\ runs[1].file[Len(runs[1].file)].month = "Jan"
          /\ runs[1].file[Len(runs[1].file)].has_ip

\* ------------------------------------------------------------------------
\* replay.py: emit_line, replay, main
\* A LogLine handed to replay is [raw, timestamp]: raw is the line's text,
\* told apart by its line number, timestamp its datetime as seconds on the
\* time line, so that (a - b).total_seconds() is a - b.
\* ------------------------------------------------------------------------
\* mutant: the cap is not applied
sleep_uncapped(delta, speed, cap) ==
    RatMax(Rat(0, 1), Rat(delta, speed))

\* lines 179-180: scaled = min(delta / speed_factor, sleep_cap);
\* time.sleep(max(0.0, scaled))
sleep_seconds(delta, speed, cap) ==
    RatMax(Rat(0, 1), RatMin(Rat(delta, speed), Rat(cap, 1)))

NoSleep == [called |-> FALSE, secs |-> Rat(0, 1)]
Sleep(r) == [called |-> TRUE, secs |-> r]

\* lines 176-180: the time.sleep call of one loop pass
pace(line, last, speed, cap) ==
    IF last.is_none THEN NoSleep
    ELSE LET delta == line.timestamp - last.int
         IN  IF delta > 0 THEN Sleep(sleep_seconds(delta, speed, cap))
             ELSE NoSleep

\* mutant: subprocess.run without check=True: a failing sink is not raised
emit_unchecked(dry, ok) == IF dry THEN "printed" ELSE "sent"

\* emit_line: print in dry-run mode, else subprocess.run(..., check=True),
\* which raises CalledProcessError when the sink exits non-zero
emit_line(dry, ok) ==
    IF dry THEN "printed" ELSE IF ok THEN "sent" ELSE "CalledProcessError"

\* mutant: replay returns its emitted counter
replay_returns_emitted(n) == PyInt(n)

\* replay falls off its end (declared -> None): it returns None
replay_return(n) == PyNone

\* line 187: if max_lines and emitted >= max_lines
limit_reached(limit, n) == TruthyInt(limit) /\ n >= limit.int

\* line 184: if status_interval and emitted % status_interval == 0
status_due(interval, n) == interval # 0 /\ n % interval = 0

\* --- the inputs the model draws ------------------------------------------
LineSeqs ==
    UNION { { [i \in 1..n |-> [raw |-> i, timestamp |-> ts[i]]] :
                ts \in [1..n -> 0..MaxTs] } : n \in 0..MaxLines }

SpeedFactors == 1..MaxSpeed

SleepCaps == -1..MaxCap

StatusIntervals == {0, 2}

MaxLinesArgs == {PyNone} \cup { PyInt(n) : n \in 0..MaxLines }

\* --- actions ----------------------------------------------------------------
\* main calls replay(...); lines 171-174
InitReplay ==
    /\ lines \in LineSeqs
    /\ speed_factor \in SpeedFactors
    /\ sleep_cap \in SleepCaps
    /\ status_interval \in StatusIntervals
    /\ dry_run \in BOOLEAN
    /\ max_lines \in MaxLinesArgs
    /\ it = 1
    /\ emitted = 0
    /\ last_ts = PyNone
    /\ slept = <<>>
    /\ sink_calls = <<>>
    /\ stdout = <<>>
    /\ stderr = <<>>
    /\ ret = PyNone
    /\ exit_code = -1
    /\ rp_pc = "loop"

\* one pass of `for line in iterator`: lines 175-188
ReplayLine ==
    /\ rp_pc = "loop"
    /\ it <= Len(lines)
    /\ LET line == lines[it]
       IN  \E ok \in BOOLEAN :
             LET outcome == emit_line(dry_run, ok)
             IN  /\ dry_run => ok
                 /\ slept' = Append(slept,
                                pace(line, last_ts, speed_factor, sleep_cap))
                 /\ it' = it + 1
                 /\ stdout' = IF dry_run THEN Append(stdout, line.raw)
                              ELSE stdout
                 /\ sink_calls' = IF dry_run THEN sink_calls
                                  ELSE Append(sink_calls,
                                         [raw |-> line.raw, ok |-> ok])
                 /\ IF outcome = "CalledProcessError"
                    THEN /\ rp_pc' = "CalledProcessError"
                         /\ exit_code' = 1
                         /\ UNCHANGED <<emitted, last_ts, stderr>>
                    ELSE /\ emitted' = emitted + 1
                         /\ last_ts' = PyInt(line.timestamp)
                         /\ stderr' =
                              IF status_due(status_interval, emitted + 1)
                              THEN Append(stderr, [kind |-> "emitted",
                                                   emitted |-> emitted + 1])
                              ELSE stderr
                         /\ rp_pc' = IF limit_reached(max_lines, emitted + 1)
                                     THEN "after_loop" ELSE "loop"
                         /\ UNCHANGED exit_code
    /\ UNCHANGED <<lines, speed_factor, sleep_cap, status_interval, dry_run,
                   max_lines, ret>>
    /\ UNCHANGED notRpVars

\* the iterator is exhausted: the for loop ends
ReplayExhausted ==
    /\ rp_pc = "loop"
    /\ it > Len(lines)
    /\ rp_pc' = "after_loop"
    /\ UNCHANGED <<lines, speed_factor, sleep_cap, status_interval, dry_run,
                   max_lines, it, emitted, last_ts, slept, sink_calls,
                   stdout, stderr, ret, exit_code>>
    /\ UNCHANGED notRpVars

\* line 189, replay's return, and main's `return 0` (lines 202-211)
ReplayReturn ==
    /\ rp_pc = "after_loop"
    /\ stderr' = Append(stderr, [kind |-> "finished", emitted |-> emitted])
    /\ ret' = replay_return(emitted)
    /\ exit_code' = 0
    /\ rp_pc' = "returned"
    /\ UNCHANGED <<lines, speed_factor, sleep_cap, status_interval, dry_run,
                   max_lines, it, emitted, last_ts, slept, sink_calls, stdout>>
    /\ UNCHANGED notRpVars

NextReplay ==
    \/ ReplayLine
    \/ ReplayExhausted
    \/ ReplayReturn

InitSpecReplay ==
    InitReplay /\ IdleSource /\ IdleBlock /\ IdleDetect /\ IdleHistory
    /\ IdleConfusion /\ IdleRace /\ IdleLog

SpecReplay == InitSpecReplay /\ [][NextReplay]_vars

\* --- claims about replay ---------------------------------------------------
\* what reached the sink or, in dry-run mode, stdout: the raw lines emitted
Emissions ==
    IF dry_run THEN stdout
    ELSE [i \in 1..Len(sink_calls) |-> sink_calls[i].raw]

\* the gap, in seconds, between the line of loop pass i and the line before
DeltaAt(i) == lines[i].timestamp - lines[i - 1].timestamp

\* min(delta / speed_factor, sleep_cap)
MinScaledCap(delta) ==
    IF delta <= sleep_cap * speed_factor THEN Rat(delta, speed_factor)
    ELSE Rat(sleep_cap, 1)

\* C4 as amended: the first line is emitted with no sleep; for every later
\* line delta is its timestamp minus the timestamp of the line emitted just
\* before it; when delta > 0 the pacer calls time.sleep with exactly
\* max(0, min(delta / speed_factor, sleep_cap)) and when delta <= 0 it does
\* not call it; last_ts is the timestamp of the last emitted line; no sleep
\* exceeds max(0, sleep_cap).
C4_PacedSleep ==
    /\ \A i \in 1..Len(slept) :
          IF i > 1 /\ DeltaAt(i) > 0
          THEN /\ slept[i].called
               /\ RatEq(slept[i].secs,
                        IF sleep_cap < 0 THEN Rat(0, 1)
                        ELSE MinScaledCap(DeltaAt(i)))
               /\ RatLe(slept[i].secs,
                        Rat(IF sleep_cap < 0 THEN 0 ELSE sleep_cap, 1))
          ELSE ~slept[i].called
    /\ last_ts = IF emitted = 0 THEN PyNone
                 ELSE PyInt(lines[emitted].timestamp)

\* C4 witness: three passes at speed factor 2 under a cap of 1: no sleep
\* for the first line, a sleep of 1/2 s for a gap of 1 s, and no sleep for
\* a gap of 0 s
C4_Witness ==
    /\ speed_factor = 2
    /\ sleep_cap = 1
    /\ Len(slept) = 3
    /\ emitted = 3
    /\ DeltaAt(2) = 1
    /\ DeltaAt(3) = 0
    /\ slept[2] = Sleep(Rat(1, 2))
    /\ ~slept[3].called

\* C4 as written: when delta > 0 the sleep is exactly
\* min(delta / speed_factor, sleep_cap), and no sleep exceeds sleep_cap.
C4_AsWritten ==
    \A i \in 1..Len(slept) :
        IF i > 1 /\ DeltaAt(i) > 0
        THEN /\ slept[i].called
             /\ RatEq(slept[i].secs, MinScaledCap(DeltaAt(i)))
             /\ RatLe(slept[i].secs, Rat(sleep_cap, 1))
        ELSE ~slept[i].called

\* C5: outside dry-run mode a failing sink call aborts replay on the spot:
\* the failed call is the last call ever made (no later line reaches the
\* sink, the line is not retried), the run ends with CalledProcessError and
\* a non-zero exit status, the failed line is not counted as emitted, and no
\* "finished" message is written.
C5_SinkFailureAborts ==
    /\ \A i \in 1..Len(sink_calls) :
          /\ sink_calls[i].raw = lines[i].raw
          /\ ~sink_calls[i].ok =>
                /\ i = Len(sink_calls)
                /\ rp_pc = "CalledProcessError"
                /\ exit_code = 1
                /\ emitted = i - 1
                /\ ret = PyNone
                /\ \A j \in 1..Len(stderr) : stderr[j].kind # "finished"
    /\ rp_pc = "CalledProcessError" =>
          /\ ~dry_run
          /\ sink_calls # <<>>
          /\ ~sink_calls[Len(sink_calls)].ok

\* C5 witness: the sink failed on the second of three lines
C5_Witness ==
    /\ ~dry_run
    /\ Len(lines) = 3
    /\ Len(sink_calls) = 2
    /\ sink_calls[1].ok
    /\ ~sink_calls[2].ok
    /\ rp_pc = "CalledProcessError"

\* C6: while the sink has not failed the number of emissions never exceeds
\* a max_lines that is set, and once replay has returned the emitted lines
\* are exactly the first min(N, max_lines) lines of the source (all N when
\* max_lines is not set), in source order.
C6_EmitsFirstMaxLines ==
    (\A i \in 1..Len(sink_calls) : sink_calls[i].ok) =>
        /\ ~max_lines.is_none => Len(Emissions) <= max_lines.int
        /\ rp_pc = "returned" =>
              LET n == IF max_lines.is_none \/ Len(lines) <= max_lines.int
                       THEN Len(lines) ELSE max_lines.int
              IN  Emissions = [i \in 1..n |-> lines[i].raw]

\* C7 as amended: replay returns None to its caller; the total number of
\* lines it emitted is reported only in its final "finished" message on
\* stderr, and main exits 0.
C7_ReturnsNone ==
    rp_pc = "returned" =>
        /\ ret = PyNone
        /\ stderr # <<>>
        /\ stderr[Len(stderr)] = [kind |-> "finished", emitted |-> emitted]
        /\ emitted = Len(Emissions)
        /\ exit_code = 0

\* C7 witness: replay has returned after emitting two lines
C7_Witness ==
    /\ rp_pc = "returned"
    /\ emitted = 2
    /\ Len(Emissions) = 2

\* C7 as written: replay returns the total number of lines it emitted.
C7_ReturnsEmittedCount ==
    rp_pc = "returned" => ret = PyInt(emitted)

\* ------------------------------------------------------------------------
\* collect_fail2ban.py: compute_block_durations
\* An ActionEvent is [timestamp, ip, action]: the timestamp as seconds on
\* the time line, and the action as the logging hook writes it ("ban" or
\* "unban", lower case, so that action.lower() is the action).  A dict of
\* lists is a function on Addresses, a missing key being the empty list.
\* ------------------------------------------------------------------------
ActionEvents ==
    [timestamp : 0..MaxEvTs, ip : Addresses, action : {"ban", "unban"}]

\* sorted(actions, key=lambda e: e.timestamp): stable, ascending
RECURSIVE InsertByTimestamp(_, _)
InsertByTimestamp(e, s) ==
    IF s = <<>> THEN <<e>>
    ELSE IF Head(s).timestamp <= e.timestamp
    THEN <<Head(s)>> \o InsertByTimestamp(e, Tail(s))
    ELSE <<e>> \o s

RECURSIVE sorted_by_timestamp(_)
\* mutant: the events are scanned in file order
unsorted(s) == s

sorted_by_timestamp(s) ==
    IF s = <<>> THEN <<>>
    ELSE InsertByTimestamp(s[Len(s)],
                           sorted_by_timestamp(SubSeq(s, 1, Len(s) - 1)))

\* mutant: pop() takes the newest pending ban
pop_last(queue) ==
    [start |-> queue[Len(queue)], rest |-> SubSeq(queue, 1, Len(queue) - 1)]

\* line 116: start = bans[event.ip].pop(0)
pop_first(queue) == [start |-> Head(queue), rest |-> Tail(queue)]

\* mutant: an unban without a pending ban records a duration of 0 seconds
scan_step_records_unmatched(event, pending, recorded) ==
    IF event.action = "ban"
    THEN [bans |-> [pending EXCEPT ![event.ip] = Append(@, event.timestamp)],
          durations |-> recorded]
    ELSE IF pending[event.ip] # <<>>
    THEN LET popped == pop_first(pending[event.ip])
         IN  [bans |-> [pending EXCEPT ![event.ip] = popped.rest],
              durations |-> [recorded EXCEPT ![event.ip] =
                                Append(@, event.timestamp - popped.start)]]
    ELSE [bans |-> pending,
          durations |-> [recorded EXCEPT ![event.ip] = Append(@, 0)]]

\* lines 112-117, the body of the loop: what one event does to bans and
\* durations
scan_step(event, pending, recorded) ==
    IF event.action = "ban"
    THEN [bans |-> [pending EXCEPT ![event.ip] = Append(@, event.timestamp)],
          durations |-> recorded]
    ELSE IF event.action = "unban" /\ pending[event.ip] # <<>>
    THEN LET popped == pop_first(pending[event.ip])
         IN  [bans |-> [pending EXCEPT ![event.ip] = popped.rest],
              durations |-> [recorded EXCEPT ![event.ip] =
                                Append(@, event.timestamp - popped.start)]]
    ELSE [bans |-> pending, durations |-> recorded]

\* --- state and actions -----------------------------------------------------
\* compute_block_durations(actions): lines 109-111
InitBlock ==
    /\ actions \in SeqsUpTo(ActionEvents, MaxEvents)
    /\ scan = sorted_by_timestamp(actions)
    /\ bi = 1
    /\ bans = NoEvents
    /\ durations = NoEvents
    /\ blk_pc = "scan"

\* one pass of `for event in sorted(...)`: lines 111-117
ScanEvent ==
    /\ blk_pc = "scan"
    /\ bi <= Len(scan)
    /\ LET after == scan_step(scan[bi], bans, durations)
       IN  /\ bans' = after.bans
           /\ durations' = after.durations
    /\ bi' = bi + 1
    /\ UNCHANGED <<actions, scan, blk_pc>>
    /\ UNCHANGED <<truth, first_ban, detection_seconds, det_pc>>
    /\ UNCHANGED notMxVars

\* line 118: return durations
ScanReturn ==
    /\ blk_pc = "scan"
    /\ bi > Len(scan)
    /\ blk_pc' = "returned"
    /\ UNCHANGED <<actions, scan, bi, bans, durations>>
    /\ UNCHANGED <<truth, first_ban, detection_seconds, det_pc>>
    /\ UNCHANGED notMxVars

NextBlock ==
    \/ ScanEvent
    \/ ScanReturn

InitSpecBlock ==
    InitBlock /\ IdleDetect /\ IdleSource /\ IdleReplay /\ IdleHistory
    /\ IdleConfusion /\ IdleRace /\ IdleLog

SpecBlock == InitSpecBlock /\ [][NextBlock]_vars

\* --- claims about compute_block_durations ----------------------------------
\* the smallest timestamp of a non-empty list of timestamps
MinOf(q) == CHOOSE t \in {q[i] : i \in 1..Len(q)} :
                \A i \in 1..Len(q) : t <= q[i]

\* how often t occurs in a list
CountOf(q, t) == Cardinality({i \in 1..Len(q) : q[i] = t})

\* the ban events of ip among a list of events
BansOf(s, ip) ==
    {i \in 1..Len(s) : s[i].ip = ip /\ s[i].action = "ban"}

IsPermutation(s, t) ==
    /\ Len(s) = Len(t)
    /\ \A e \in ActionEvents : CountOf(s, e) = CountOf(t, e)

\* C1, the order: whatever the on-disk order, the scan visits exactly the
\* given events in ascending timestamp order, and every pending or closed
\* ban is accounted for: per address the recorded durations and the still
\* pending bans together are the bans scanned so far, so a ban that is
\* never closed records no duration.
C1_ScanOrder ==
    /\ IsPermutation(actions, scan)
    /\ \A i \in 1..(Len(scan) - 1) : scan[i].timestamp <= scan[i + 1].timestamp
    /\ \A ip \in Addresses :
          Len(durations[ip]) + Len(bans[ip])
              = Cardinality(BansOf(SubSeq(scan, 1, bi - 1), ip))

\* C1, the pairing: a scanned unban of address A that finds a pending ban of
\* A records exactly one duration, its timestamp minus the timestamp of the
\* earliest still-pending ban of A, and closes that ban and no other; any
\* other scanned event records no duration.
C1_ClosesEarliest ==
    (blk_pc = "scan" /\ bi' = bi + 1) =>
        LET event == scan[bi]
        IN  IF event.action = "unban" /\ bans[event.ip] # <<>>
            THEN LET earliest == MinOf(bans[event.ip])
                 IN  /\ durations' = [durations EXCEPT ![event.ip] =
                            Append(@, event.timestamp - earliest)]
                     /\ \A ip \in Addresses \ {event.ip} : bans'[ip] = bans[ip]
                     /\ \A t \in 0..MaxEvTs :
                            CountOf(bans'[event.ip], t)
                              = CountOf(bans[event.ip], t)
                                  - (IF t = earliest THEN 1 ELSE 0)
            ELSE durations' = durations

\* C1: for any list of action events in any on-disk order,
\* compute_block_durations processes them in ascending timestamp order and
\* every unban of an address with a pending ban closes the earliest
\* still-open ban of that address (FIFO), recording exactly one duration,
\* the unban timestamp minus that ban's timestamp; bans never closed produce
\* no duration.
C1_FifoPairing == [][C1_ClosesEarliest]_vars /\ []C1_ScanOrder

\* C12, one scan step: an unban of an address with no pending ban at that
\* point of the scan leaves the pending bans and the recorded durations of
\* every address as they were, and the scan goes on to the next event
C12_UnmatchedStep ==
    (blk_pc = "scan" /\ bi' = bi + 1
       /\ scan[bi].action = "unban" /\ bans[scan[bi].ip] = <<>>) =>
        /\ bans' = bans
        /\ durations' = durations
        /\ blk_pc' = "scan"

\* C12: in compute_block_durations an unban for an address that has no
\* pending ban at that point of the timestamp-ordered scan is dropped: it
\* records no duration, raises no error, and leaves the pending bans and
\* recorded durations of every address unchanged, so a later ban/unban pair
\* of the same address is still paired normally.
C12_UnmatchedUnbanDropped == [][C12_UnmatchedStep]_vars

\* C12 witness: unban(A,0), ban(A,1), unban(A,2): the first unban found no
\* pending ban and was dropped, the later pair recorded its duration of 1 s
C12_Witness ==
    /\ blk_pc = "returned"
    /\ scan = << [timestamp |-> 0, ip |-> "10.0.0.5", action |-> "unban"],
                 [timestamp |-> 1, ip |-> "10.0.0.5", action |-> "ban"],
                 [timestamp |-> 2, ip |-> "10.0.0.5", action |-> "unban"] >>
    /\ durations["10.0.0.5"] = <<1>>
    /\ bans["10.0.0.5"] = <<>>

\* C18: every block duration recorded by compute_block_durations is >= 0,
\* for any list of action events in any order and with any timestamps
\* (equal ones included), and for every address the number of recorded
\* durations never exceeds the number of ban events of that address.
C18_DurationsNonNegative ==
    \A ip \in Addresses :
        /\ \A i \in 1..Len(durations[ip]) : durations[ip][i] >= 0
        /\ Len(durations[ip]) <= Cardinality(BansOf(actions, ip))

\* C18 witness: unban(A,2), ban(A,1), unban(A,1), out of order on disk and
\* with equal timestamps: the ban at 1 is closed by the unban at 1, a
\* duration of 0 s, and the unban at 2 finds nothing to close
C18_Witness ==
    /\ blk_pc = "returned"
    /\ actions = << [timestamp |-> 2, ip |-> "10.0.0.5", action |-> "unban"],
                    [timestamp |-> 1, ip |-> "10.0.0.5", action |-> "ban"],
                    [timestamp |-> 1, ip |-> "10.0.0.5", action |-> "unban"] >>
    /\ durations["10.0.0.5"] = <<0>>
    /\ bans["10.0.0.5"] = <<>>

\* C1 witness: the log unban(A,2), ban(A,1), ban(A,0), out of order on
\* disk, has been scanned to the end: one duration of 2 s, paired with the
\* ban at 0, and the ban at 1 still open
C1_Witness ==
    /\ blk_pc = "returned"
    /\ actions = << [timestamp |-> 2, ip |-> "10.0.0.5", action |-> "unban"],
                    [timestamp |-> 1, ip |-> "10.0.0.5", action |-> "ban"],
                    [timestamp |-> 0, ip |-> "10.0.0.5", action |-> "ban"] >>
    /\ durations["10.0.0.5"] = <<2>>
    /\ bans["10.0.0.5"] = <<1>>
    /\ durations["10.0.0.6"] = <<>>

\* ------------------------------------------------------------------------
\* collect_fail2ban.py: compute_detection_times, as compute_metrics calls it
\* The ground truth is a table keyed by src_ip: a function on Addresses to
\* [label_norm, first_ts_parsed], label_norm "absent" for an address the
\* table has no row for.  A dict of numbers is a function on Addresses to
\* Optional[int], PyNone for a missing key.
\* ------------------------------------------------------------------------
TruthRows ==
    { [label_norm |-> "malicious", first_ts_parsed |-> t] : t \in 0..MaxFirstTs }
    \cup { [label_norm |-> l, first_ts_parsed |-> 0] : l \in {"benign", "unknown"} }
    \cup { NoRow }

\* lines 94-98: first_ban.setdefault(event.ip, event.timestamp) for every
\* ban, in the order of the list
RECURSIVE first_bans(_, _)
first_bans(events, acc) ==
    IF events = <<>> THEN acc
    ELSE LET event == Head(events)
         IN  first_bans(Tail(events),
                 IF event.action # "ban" THEN acc
                 ELSE IF acc[event.ip].is_none
                 THEN [acc EXCEPT ![event.ip] = PyInt(event.timestamp)]
                 ELSE acc)

\* line 149: truth[truth["label_norm"] == "malicious"]
malicious_rows(table) ==
    [ip \in Addresses |->
        IF table[ip].label_norm = "malicious" THEN table[ip] ELSE NoRow]

\* lines 99-105: one latency per row whose address has a first ban
latencies(rows, first) ==
    [ip \in Addresses |->
        IF rows[ip] = NoRow \/ first[ip].is_none THEN PyNone
        ELSE PyInt(first[ip].int - rows[ip].first_ts_parsed)]

\* --- actions ----------------------------------------------------------------
\* compute_metrics(actions, truth) reaches line 149
InitDetect ==
    /\ actions \in SeqsUpTo(ActionEvents, MaxDetEvents)
    /\ truth \in [Addresses -> TruthRows]
    /\ first_ban = NoValues
    /\ detection_seconds = NoValues
    /\ det_pc = "first_bans"
    /\ scan = <<>>
    /\ bi = 1
    /\ bans = NoEvents
    /\ durations = NoEvents
    /\ blk_pc = "idle"

\* the loop of lines 95-98
DetectFirstBans ==
    /\ det_pc = "first_bans"
    /\ first_ban' = first_bans(actions, NoValues)
    /\ det_pc' = "latencies"
    /\ UNCHANGED <<actions, truth, detection_seconds>>
    /\ UNCHANGED <<scan, bi, bans, durations, blk_pc>>
    /\ UNCHANGED notMxVars

\* the loop of lines 100-104 and the return of line 105
DetectLatencies ==
    /\ det_pc = "latencies"
    /\ detection_seconds' = latencies(malicious_rows(truth), first_ban)
    /\ det_pc' = "returned"
    /\ UNCHANGED <<actions, truth, first_ban>>
    /\ UNCHANGED <<scan, bi, bans, durations, blk_pc>>
    /\ UNCHANGED notMxVars

NextDetect ==
    \/ DetectFirstBans
    \/ DetectLatencies

InitSpecDetect == InitDetect /\ IdleSource /\ IdleReplay /\ IdleHistory
    /\ IdleConfusion /\ IdleRace /\ IdleLog

SpecDetect == InitSpecDetect /\ [][NextDetect]_vars

\* --- claims about compute_detection_times ----------------------------------
\* the timestamps of the ban actions of ip in the action log
BanTimes(ip) ==
    {actions[i].timestamp : i \in BansOf(actions, ip)}

\* C2: for every malicious ground-truth address with at least one ban
\* action, the reported detection latency is the minimum timestamp over all
\* ban actions of the address minus the address's first_ts, whatever the
\* order of the events in the action log; it is not clamped.
C2_LatencyFromEarliestBan ==
    det_pc = "returned" =>
        \A ip \in Addresses :
            (truth[ip].label_norm = "malicious" /\ BanTimes(ip) # {}) =>
                \E t \in BanTimes(ip) :
                    /\ \A u \in BanTimes(ip) : t <= u
                    /\ detection_seconds[ip]
                         = PyInt(t - truth[ip].first_ts_parsed)

\* ------------------------------------------------------------------------
\* collect_fail2ban.py: update_history, as main calls it
\* A RunEntry is [run_id, metrics]; of its metrics the model keeps what
\* update_history reads: detection_seconds.count, detection_seconds.avg and
\* accuracy.  The history file is [exists, entries].
\* ------------------------------------------------------------------------
\* summarize: count 0 comes with avg 0.0
DetectionSummaries ==
    { [count |-> 0, avg |-> 0] }
    \cup { [count |-> 1, avg |-> a] : a \in 0..MaxAvg }

\* accuracy 0.0 and 1.0
Accuracies == {0, 1}

MetricsResults ==
    [detection_seconds : DetectionSummaries, accuracy : Accuracies]

RECURSIVE SumOf(_)
SumOf(s) == IF s = <<>> THEN 0 ELSE Head(s) + SumOf(Tail(s))

\* statistics.stdev(data) for two or more data points, by its square, the
\* sample variance (n * sum(x^2) - sum(x)^2) / (n * (n - 1)); with fewer
\* than two data points stdev raises StatisticsError
stdev_squared(data) ==
    LET n == Len(data)
    IN  Rat(n * SumOf([i \in 1..n |-> data[i] * data[i]])
              - SumOf(data) * SumOf(data),
            n * (n - 1))

\* line 177
detection_vals(h) ==
    LET counted == SelectSeq(h,
                     LAMBDA e : e.metrics.detection_seconds.count # 0)
    IN  [i \in 1..Len(counted) |-> counted[i].metrics.detection_seconds.avg]

\* line 178
accuracy_vals(h) == [i \in 1..Len(h) |-> h[i].metrics.accuracy]

\* lines 175-183: the repeatability dict, or the StatisticsError of a
\* stdev call on a single data point
repeatability_of(h) ==
    IF Len(h) >= 2
    THEN IF detection_vals(h) # <<>> /\ Len(detection_vals(h)) < 2
         THEN [raised |-> TRUE, value |-> NoRepeatability]
         ELSE IF accuracy_vals(h) # <<>> /\ Len(accuracy_vals(h)) < 2
         THEN [raised |-> TRUE, value |-> NoRepeatability]
         ELSE [raised |-> FALSE,
               value |->
                 [detection_seconds_std |->
                     IF detection_vals(h) # <<>>
                     THEN Key(stdev_squared(detection_vals(h))) ELSE Missing,
                  accuracy_std |->
                     IF accuracy_vals(h) # <<>>
                     THEN Key(stdev_squared(accuracy_vals(h))) ELSE Missing]]
    ELSE [raised |-> FALSE, value |-> NoRepeatability]

\* --- actions ----------------------------------------------------------------
\* main, lines 199-213: a run of the metrics tool reaches update_history
\* with its run entry; a run that died of an exception is over
RunStart ==
    /\ hist_pc \in {"idle", "StatisticsError"}
    /\ invocations < MaxRuns
    /\ invocations' = invocations + 1
    /\ \E m \in MetricsResults :
          run_entry' = [run_id |-> invocations + 1, metrics |-> m]
    /\ history' = <<>>
    /\ repeatability' = NoRepeatability
    /\ hist_pc' = "read"
    /\ UNCHANGED <<history_file, metrics_out>>
    /\ UNCHANGED notHistVars

\* mutant: the history always starts empty
load_nothing(f) == <<>>

\* lines 170-172: the history array of the file, empty when there is no file
load_history(f) == IF f.exists THEN f.entries ELSE <<>>

\* lines 170-173: read the file if it exists, append the entry
HistoryRead ==
    /\ hist_pc = "read"
    /\ history' = Append(load_history(history_file), run_entry)
    /\ hist_pc' = "write"
    /\ UNCHANGED <<history_file, run_entry, repeatability, metrics_out,
                   invocations>>
    /\ UNCHANGED notHistVars

\* line 174: rewrite the whole file
HistoryWrite ==
    /\ hist_pc = "write"
    /\ history_file' = [exists |-> TRUE, entries |-> history]
    /\ hist_pc' = "stats"
    /\ UNCHANGED <<run_entry, history, repeatability, metrics_out,
                   invocations>>
    /\ UNCHANGED notHistVars

\* lines 175-183: the repeatability summary
HistoryRepeatability ==
    /\ hist_pc = "stats"
    /\ LET r == repeatability_of(history)
       IN  /\ repeatability' = r.value
           /\ hist_pc' = IF r.raised THEN "StatisticsError" ELSE "returned"
    /\ UNCHANGED <<history_file, run_entry, history, metrics_out,
                   invocations>>
    /\ UNCHANGED notHistVars

\* main, lines 214-224: the metrics output file is written
WriteMetrics ==
    /\ hist_pc = "returned"
    /\ metrics_out' = Append(metrics_out,
                         [run |-> run_entry, repeatability |-> repeatability])
    /\ hist_pc' = "idle"
    /\ UNCHANGED <<history_file, run_entry, history, repeatability,
                   invocations>>
    /\ UNCHANGED notHistVars

NextHistory ==
    \/ RunStart
    \/ HistoryRead
    \/ HistoryWrite
    \/ HistoryRepeatability
    \/ WriteMetrics

InitSpecHistory ==
    IdleHistory /\ IdleSource /\ IdleReplay /\ IdleBlock /\ IdleDetect
    /\ IdleConfusion /\ IdleRace /\ IdleLog

SpecHistory == InitSpecHistory /\ [][NextHistory]_vars

\* --- claims about update_history -------------------------------------------
\* C13, one step: the history file changes only by update_history's write,
\* and the written history is the persisted one (empty when the file does
\* not exist) with the run's entry appended as last element
C13_AppendStep ==
    history_file' # history_file =>
        /\ hist_pc = "write"
        /\ history_file'.exists
        /\ history_file'.entries =
              Append(IF history_file.exists THEN history_file.entries
                     ELSE <<>>, run_entry)

\* C13, the length: one entry per call, in the order of the calls
C13_OnePerCall ==
    /\ Len(history_file.entries) =
          invocations - (IF hist_pc \in {"read", "write"} THEN 1 ELSE 0)
    /\ \A i \in 1..Len(history_file.entries) :
          history_file.entries[i].run_id = i

\* C13: for any sequence of non-overlapping update_history calls on one
\* history file, after each call the persisted history equals the history
\* persisted before the call with the new RunEntry appended as last
\* element: earlier entries are unchanged and keep their order, and the
\* length grows by exactly one per call, starting from the empty history
\* when the file does not exist.
C13_HistoryAppendOnly == [][C13_AppendStep]_vars /\ []C13_OnePerCall

\* C13 witness: three runs in a row have left their three entries, in order
C13_Witness ==
    /\ hist_pc = "idle"
    /\ invocations = 3
    /\ Len(history_file.entries) = 3
    /\ \A i \in 1..3 : history_file.entries[i].run_id = i
    /\ Len(metrics_out) = 3

\* C3: update_history never fails over its statistics: repeatability is
\* computed only for a history of at least 2 entries, and on return
\* detection_seconds_std is present exactly when at least 2 entries have a
\* non-zero detection count and accuracy_std exactly when the history has at
\* least 2 entries; a statistic with fewer than 2 data points is omitted.
C3_OmittedWithoutError ==
    /\ hist_pc # "StatisticsError"
    /\ hist_pc = "returned" =>
          /\ repeatability.detection_seconds_std.present
                <=> (Len(history) >= 2 /\ Len(detection_vals(history)) >= 2)
          /\ repeatability.accuracy_std.present <=> Len(history) >= 2

\* the runs whose entry the history file holds, and the runs whose metrics
\* output was written
RunsInHistory ==
    {history_file.entries[i].run_id : i \in 1..Len(history_file.entries)}

RunsWithOutput == {metrics_out[i].run.run_id : i \in 1..Len(metrics_out)}

\* C19: a metrics run is all-or-nothing with respect to its two outputs:
\* once a run is over, whether it completed or died of a failure, its entry
\* is in the history file if and only if its metrics output was written; no
\* failure during the run leaves a new entry in the history file without a
\* corresponding metrics output.
C19_AllOrNothing ==
    hist_pc \in {"idle", "StatisticsError"} =>
        RunsInHistory = RunsWithOutput

\* ------------------------------------------------------------------------
\* collect_fail2ban.py: update_history, lines 170-174, in two runs of the
\* metrics tool that share one history file.  Each run is a process of its
\* own; the file is the only state they share.  write_text opens the file
\* for writing, which empties it, and then writes the text: a run that
\* reads in between gets the empty text, which json.loads rejects.
\* ------------------------------------------------------------------------
\* the history files the two runs may find: none, or one earlier entry
RaceFiles ==
    { [exists |-> FALSE, entries |-> <<>>] }
    \cup { [exists |-> TRUE, entries |-> <<NoEntry>>] }

\* mutant: the write re-reads the file and appends the entry to what it holds
written_merged(mine, f) == Append(load_history(f), mine[Len(mine)])

\* line 174: the text written is the list this run read and appended to,
\* whatever the file holds by now
written_history(mine, f) == mine

\* --- actions ----------------------------------------------------------------
\* both runs have reached update_history, each with its run entry
InitRace ==
    /\ history_file \in RaceFiles
    /\ race_entry \in
          { e \in [ConcurrentRuns -> [run_id : ConcurrentRuns,
                                      metrics : MetricsResults]] :
              \A r \in ConcurrentRuns : e[r].run_id = r }
    /\ race_history = [r \in ConcurrentRuns |-> <<>>]
    /\ race_pc = [r \in ConcurrentRuns |-> "exists"]
    /\ truncated = FALSE
    /\ run_entry = NoEntry
    /\ history = <<>>
    /\ repeatability = NoRepeatability
    /\ metrics_out = <<>>
    /\ invocations = 0
    /\ hist_pc = "idle"

\* line 171: history_path.exists(); without a file, line 173 appends to the
\* empty list
RaceExists(r) ==
    /\ race_pc[r] = "exists"
    /\ IF history_file.exists
       THEN /\ race_pc' = [race_pc EXCEPT ![r] = "read"]
            /\ UNCHANGED race_history
       ELSE /\ race_history' = [race_history EXCEPT ![r] = <<race_entry[r]>>]
            /\ race_pc' = [race_pc EXCEPT ![r] = "open"]
    /\ UNCHANGED <<race_entry, truncated>>
    /\ UNCHANGED histVars
    /\ UNCHANGED notRaceVars

\* lines 172-173: json.loads(history_path.read_text()), then the append
RaceRead(r) ==
    /\ race_pc[r] = "read"
    /\ IF truncated
       THEN /\ race_pc' = [race_pc EXCEPT ![r] = "JSONDecodeError"]
            /\ UNCHANGED race_history
       ELSE /\ race_history' = [race_history EXCEPT ![r] =
                   Append(load_history(history_file), race_entry[r])]
            /\ race_pc' = [race_pc EXCEPT ![r] = "open"]
    /\ UNCHANGED <<race_entry, truncated>>
    /\ UNCHANGED histVars
    /\ UNCHANGED notRaceVars

\* line 174, write_text: the file is opened for writing and emptied
RaceOpen(r) ==
    /\ race_pc[r] = "open"
    /\ history_file' = [exists |-> TRUE, entries |-> <<>>]
    /\ truncated' = TRUE
    /\ race_pc' = [race_pc EXCEPT ![r] = "write"]
    /\ UNCHANGED <<race_entry, race_history>>
    /\ UNCHANGED <<run_entry, history, repeatability, metrics_out,
                   invocations, hist_pc>>
    /\ UNCHANGED notRaceVars

\* line 174, write_text: the text is written and the file closed
RaceWrite(r) ==
    /\ race_pc[r] = "write"
    /\ history_file' =
          [exists |-> TRUE,
           entries |-> written_history(race_history[r], history_file)]
    /\ truncated' = FALSE
    /\ race_pc' = [race_pc EXCEPT ![r] = "done"]
    /\ UNCHANGED <<race_entry, race_history>>
    /\ UNCHANGED <<run_entry, history, repeatability, metrics_out,
                   invocations, hist_pc>>
    /\ UNCHANGED notRaceVars

NextRace ==
    \/ \E r \in ConcurrentRuns : RaceExists(r)
    \/ \E r \in ConcurrentRuns : RaceRead(r)
    \/ \E r \in ConcurrentRuns : RaceOpen(r)
    \/ \E r \in ConcurrentRuns : RaceWrite(r)

InitSpecRace ==
    InitRace /\ IdleSource /\ IdleReplay /\ IdleBlock /\ IdleDetect
    /\ IdleConfusion /\ IdleLog

SpecRace == InitSpecRace /\ [][NextRace]_vars

\* --- claims about concurrent runs --------------------------------------------
\* entry e is an element of the list h
Holds(h, e) == \E i \in 1..Len(h) : h[i] = e

\* both runs read the history before either rewrote it: neither run's list
\* holds the other run's entry
BothReadFirst ==
    /\ ~Holds(race_history[1], race_entry[2])
    /\ ~Holds(race_history[2], race_entry[1])

\* C16: two metrics runs executing update_history concurrently against one
\* history file race on the read-modify-write: when both have read the file
\* before either rewrote it, the history persisted after both have written
\* holds only one of the two new entries, the last writer's; no locking
\* keeps one entry appended per run.
C16_LostUpdate ==
    (race_pc[1] = "done" /\ race_pc[2] = "done" /\ BothReadFirst) =>
        /\ Holds(history_file.entries, race_entry[1])
              # Holds(history_file.entries, race_entry[2])
        /\ history_file.entries \in {race_history[1], race_history[2]}

\* C16 witness: the file held one earlier entry, both runs read it, run 1
\* wrote, then run 2 wrote: the file holds the earlier entry and the entry
\* of run 2, and the entry of run 1 is lost
C16_Witness ==
    /\ race_pc[1] = "done" /\ race_pc[2] = "done"
    /\ BothReadFirst
    /\ ~truncated
    /\ history_file.entries = <<NoEntry, race_entry[2]>>
    /\ ~Holds(history_file.entries, race_entry[1])
    /\ race_history[1] = <<NoEntry, race_entry[1]>>

\* ------------------------------------------------------------------------
\* collect_fail2ban.py: compute_metrics, lines 135-147
\* Of the ground truth the confusion matrix reads src_ip and label_norm:
\* labels maps an address to its label_norm, "absent" for an address the
\* table has no row for.
\* ------------------------------------------------------------------------
LabelNorms == {"malicious", "benign", "unknown", "absent"}

\* the events of the action log of a run against that ground truth
TruthEvents ==
    [timestamp : {0}, ip : TruthAddresses, action : {"ban", "unban"}]

\* lines 135-137: set(truth[truth["label_norm"] == label]["src_ip"])
ips_labelled(table, label) == {ip \in DOMAIN table : table[ip] = label}

\* mutant: every address of the action log counts as banned
ips_of_any_action(events) == {events[i].ip : i \in 1..Len(events)}

\* line 139: {event.ip for event in actions if event.action.lower() == "ban"}
banned_ips_of(events) ==
    {events[i].ip : i \in {j \in 1..Len(events) : events[j].action = "ban"}}

\* lines 140-143
confusion_counts(banned, table) ==
    LET malicious_ips == ips_labelled(table, "malicious")
        benign_ips == ips_labelled(table, "benign")
        false_positive == Cardinality(banned \cap benign_ips)
    IN  [true_positive |-> Cardinality(banned \cap malicious_ips),
         false_positive |-> false_positive,
         false_negative |-> Cardinality(malicious_ips \ banned),
         true_negative |-> Cardinality(benign_ips) - false_positive]

\* lines 145-147: a rate is 0.0 when the set(s) it divides by are empty
confusion_rates(c, table) ==
    LET malicious_ips == ips_labelled(table, "malicious")
        benign_ips == ips_labelled(table, "benign")
    IN  [tpr |-> IF malicious_ips # {}
                 THEN Rat(c.true_positive, Cardinality(malicious_ips))
                 ELSE Rat(0, 1),
         fpr |-> IF benign_ips # {}
                 THEN Rat(c.false_positive, Cardinality(benign_ips))
                 ELSE Rat(0, 1),
         accuracy |-> IF malicious_ips # {} \/ benign_ips # {}
                      THEN Rat(c.true_positive + c.true_negative,
                               Cardinality(malicious_ips)
                                 + Cardinality(benign_ips))
                      ELSE Rat(0, 1)]

\* --- actions ----------------------------------------------------------------
\* compute_metrics(actions, truth) is called
InitConfusion ==
    /\ actions \in SeqsUpTo(TruthEvents, MaxConfEvents)
    /\ labels \in [TruthAddresses -> LabelNorms]
    /\ banned_ips = {}
    /\ confusion = NoConfusion
    /\ rates = NoRates
    /\ cm_pc = "counts"
    /\ scan = <<>>
    /\ bi = 1
    /\ bans = NoEvents
    /\ durations = NoEvents
    /\ blk_pc = "idle"

\* lines 135-143
ConfusionCounts ==
    /\ cm_pc = "counts"
    /\ banned_ips' = banned_ips_of(actions)
    /\ confusion' = confusion_counts(banned_ips_of(actions), labels)
    /\ cm_pc' = "rates"
    /\ UNCHANGED <<labels, rates>>
    /\ UNCHANGED notCmVars

\* lines 145-147
ConfusionRates ==
    /\ cm_pc = "rates"
    /\ rates' = confusion_rates(confusion, labels)
    /\ cm_pc' = "returned"
    /\ UNCHANGED <<labels, banned_ips, confusion>>
    /\ UNCHANGED notCmVars

NextConfusion ==
    \/ ConfusionCounts
    \/ ConfusionRates

InitSpecConfusion ==
    InitConfusion /\ IdleDetect /\ IdleSource /\ IdleReplay /\ IdleHistory
    /\ IdleRace /\ IdleLog

SpecConfusion == InitSpecConfusion /\ [][NextConfusion]_vars

\* --- claims about the confusion matrix --------------------------------------
\* the distinct addresses with at least one ban action in the action log
Banned ==
    {ip \in TruthAddresses :
        \E i \in 1..Len(actions) :
            actions[i].ip = ip /\ actions[i].action = "ban"}

\* n / d, and 0 when the denominator is empty
Ratio(n, d) == IF d = 0 THEN Rat(0, 1) ELSE Rat(n, d)

\* the ground truth without its unknown-labelled rows
WithoutUnknown ==
    [ip \in TruthAddresses |->
        IF labels[ip] = "unknown" THEN "absent" ELSE labels[ip]]

\* C11: compute_metrics uses true_positive = |banned n malicious|,
\* false_positive = |banned n benign|, false_negative = |malicious| - TP and
\* true_negative = |benign| - FP, banned being the distinct addresses with at
\* least one ban action; TPR = TP/|malicious|, FPR = FP/|benign| and
\* accuracy = (TP+TN)/(|malicious|+|benign|), each 0 when its denominator
\* is empty; unknown-labelled addresses affect none of these values.
C11_ConfusionMatrix ==
    cm_pc = "returned" =>
        LET M == {ip \in TruthAddresses : labels[ip] = "malicious"}
            B == {ip \in TruthAddresses : labels[ip] = "benign"}
            TP == Cardinality(Banned \cap M)
            FP == Cardinality(Banned \cap B)
            TN == Cardinality(B) - FP
        IN  /\ banned_ips = Banned
            /\ confusion = [true_positive |-> TP,
                            false_positive |-> FP,
                            false_negative |-> Cardinality(M) - TP,
                            true_negative |-> TN]
            /\ RatEq(rates.tpr, Ratio(TP, Cardinality(M)))
            /\ RatEq(rates.fpr, Ratio(FP, Cardinality(B)))
            /\ RatEq(rates.accuracy,
                     Ratio(TP + TN, Cardinality(M) + Cardinality(B)))
            /\ confusion = confusion_counts(banned_ips, WithoutUnknown)
            /\ rates = confusion_rates(confusion, WithoutUnknown)

\* C11 witness: malicious = {.1, .2}, benign = {.3, .4}, banned = {.1, .3}:
\* TP = FP = FN = TN = 1 and all three rates are 1/2
C11_Witness ==
    /\ cm_pc = "returned"
    /\ labels = [ip \in TruthAddresses |->
                    IF ip \in {"10.0.0.1", "10.0.0.2"} THEN "malicious"
                    ELSE "benign"]
    /\ banned_ips = {"10.0.0.1", "10.0.0.3"}
    /\ confusion = [true_positive |-> 1, false_positive |-> 1,
                    false_negative |-> 1, true_negative |-> 1]
    /\ RatEq(rates.tpr, Rat(1, 2))
    /\ RatEq(rates.fpr, Rat(1, 2))
    /\ RatEq(rates.accuracy, Rat(1, 2))

\* C11 witness, the unknown label: an unknown-labelled address is banned
\* and an empty benign set leaves FPR at 0
C11_WitnessUnknown ==
    /\ cm_pc = "returned"
    /\ \E ip \in banned_ips : labels[ip] = "unknown"
    /\ \A ip \in TruthAddresses : labels[ip] # "benign"
    /\ confusion.true_positive = 1
    /\ rates.fpr = Rat(0, 1)

\* ------------------------------------------------------------------------
\* collect_fail2ban.py: parse_dt, load_actions
\* A line of the action log is [kind, timestamp, ts, ip, action, jail,
\* reason, match_ts, log_line, extra]: kind says whether the line is blank,
\* is not JSON ("malformed") or is a JSON object, and the other fields are
\* the values of the object's keys.  A value is [tag, text, fmt, at]: a
\* missing key (tag "absent") or a string, which is either plain text or,
\* with fmt set, the instant `at` written in the strftime format fmt.
\* ------------------------------------------------------------------------
Absent == [tag |-> "absent", text |-> "", fmt |-> "", at |-> 0]
Str(text) == [tag |-> "str", text |-> text, fmt |-> "", at |-> 0]
Stamp(fmt, at) == [tag |-> "str", text |-> "", fmt |-> fmt, at |-> at]

\* Python's truth value of payload.get(key): None and "" are false
JsonTruthy(v) == v.tag = "str" /\ (v.text # "" \/ v.fmt # "")

DATETIME_FORMATS ==
    {"%Y-%m-%dT%H:%M:%S.%fZ", "%Y-%m-%dT%H:%M:%SZ", "%d/%m/%Y %H:%M",
     "%d/%m/%Y %H:%M:%S"}

\* parse_dt: the instant of a string in one of the four formats; any other
\* string raises ValueError
NoInstant == -1
parse_dt(v) == IF v.fmt \in DATETIME_FORMATS THEN v.at ELSE NoInstant

JsonLine(kind, timestamp, ts, ip, action) ==
    [kind |-> kind, timestamp |-> timestamp, ts |-> ts, ip |-> ip,
     action |-> action, jail |-> Absent, reason |-> Absent,
     match_ts |-> Absent, log_line |-> Absent, extra |-> Absent]

BlankLogLine == JsonLine("blank", Absent, Absent, Absent, Absent)
MalformedLine == JsonLine("malformed", Absent, Absent, Absent, Absent)

\* the lines of the action logs that load_actions is given
LogLineSet ==
    { JsonLine("object", timestamp, ts, ip, action) :
        timestamp \in {Absent, Str(""), Str("yesterday"),
                       Stamp("%Y-%m-%dT%H:%M:%S.%fZ", 1)},
        ts \in {Absent, Str("yesterday"), Stamp("%d/%m/%Y %H:%M", 2)},
        ip \in {Absent, Str("10.0.0.5")},
        action \in {Absent, Str("unban")} }
    \cup { BlankLogLine, MalformedLine }

\* Optional[str]
NoneStr == [is_none |-> TRUE, text |-> ""]
SomeStr(text) == [is_none |-> FALSE, text |-> text]

NoEvent == [timestamp |-> NoInstant, ip |-> "", action |-> "", jail |-> "",
            reason |-> NoneStr]

\* lines 68-77: json.loads and the ActionEvent of one non-blank line, or the
\* exception that ends the load
load_line(line) ==
    LET stamp == IF JsonTruthy(line.timestamp) THEN line.timestamp
                 ELSE line.ts
    IN  IF line.kind = "malformed"
        THEN [error |-> "JSONDecodeError", event |-> NoEvent]
        ELSE IF ~JsonTruthy(line.timestamp) /\ line.ts = Absent
        THEN [error |-> "KeyError", event |-> NoEvent]
        ELSE IF parse_dt(stamp) = NoInstant
        THEN [error |-> "ValueError", event |-> NoEvent]
        ELSE IF line.ip = Absent
        THEN [error |-> "KeyError", event |-> NoEvent]
        ELSE [error |-> "none",
              event |->
                [timestamp |-> parse_dt(stamp),
                 ip |-> line.ip.text,
                 action |-> IF line.action = Absent THEN "ban"
                            ELSE line.action.text,
                 jail |-> IF line.jail = Absent THEN "ssh-proxmox"
                          ELSE line.jail.text,
                 reason |-> IF line.reason = Absent THEN NoneStr
                            ELSE SomeStr(line.reason.text)]]

RECURSIVE load_skipping_bad_lines(_, _)
\* mutant: a line that cannot be loaded is skipped
load_skipping_bad_lines(log, events) ==
    IF log = <<>> THEN [outcome |-> "returned", events |-> events]
    ELSE IF Head(log).kind = "blank" \/ load_line(Head(log)).error # "none"
    THEN load_skipping_bad_lines(Tail(log), events)
    ELSE load_skipping_bad_lines(Tail(log),
             Append(events, load_line(Head(log)).event))

RECURSIVE load_actions(_, _)
\* lines 63-78: the loop over the lines of the file, from the events
\* collected so far; an exception leaves the function without a result
load_actions(log, events) ==
    IF log = <<>> THEN [outcome |-> "returned", events |-> events]
    ELSE IF Head(log).kind = "blank"
    THEN load_actions(Tail(log), events)
    ELSE IF load_line(Head(log)).error # "none"
    THEN [outcome |-> load_line(Head(log)).error, events |-> <<>>]
    ELSE load_actions(Tail(log), Append(events, load_line(Head(log)).event))

\* --- actions ----------------------------------------------------------------
\* an action log file is in place
InitLoad ==
    /\ action_log \in SeqsUpTo(LogLineSet, MaxLogLines)
    /\ loaded = NotLoaded

\* main, line 206: actions = load_actions(actions_path)
LoadActions ==
    /\ loaded = NotLoaded
    /\ loaded' = load_actions(action_log, <<>>)
    /\ UNCHANGED action_log
    /\ UNCHANGED notLogVars

NextLoad == LoadActions

InitSpecLoad ==
    InitLoad /\ IdleSource /\ IdleReplay /\ IdleBlock /\ IdleDetect
    /\ IdleHistory /\ IdleConfusion /\ IdleRace

SpecLoad == InitSpecLoad /\ [][NextLoad]_vars

\* --- claims about load_actions -----------------------------------------------
\* the non-blank lines of the action log, in file order
NonBlank == SelectSeq(action_log, LAMBDA l : l.kind # "blank")

\* the string a line's timestamp is taken from: `timestamp` unless it is
\* missing or empty, else `ts`
StampOf(line) ==
    IF line.timestamp.tag = "str" /\ line.timestamp # Str("")
    THEN line.timestamp ELSE line.ts

\* a line that is malformed JSON, lacks ip, or has neither timestamp nor ts
BadAsWritten(line) ==
    \/ line.kind = "malformed"
    \/ line.ip = Absent
    \/ line.timestamp = Absent /\ line.ts = Absent

\* a line that is malformed JSON, lacks ip, or whose timestamp string is
\* missing or in none of the four accepted formats
BadLine(line) ==
    \/ line.kind = "malformed"
    \/ line.ip = Absent
    \/ StampOf(line) = Absent
    \/ StampOf(line).fmt \notin DATETIME_FORMATS

\* all-or-nothing over a given notion of bad line: with a bad line the load
\* fails and yields no events; otherwise it returns one event per
\* non-blank line, in file order, action defaulting to ban
AllOrNothing(Bad(_)) ==
    loaded # NotLoaded =>
        IF \E i \in 1..Len(NonBlank) : Bad(NonBlank[i])
        THEN loaded.outcome # "returned" /\ loaded.events = <<>>
        ELSE /\ loaded.outcome = "returned"
             /\ Len(loaded.events) = Len(NonBlank)
             /\ \A i \in 1..Len(NonBlank) :
                   /\ loaded.events[i].ip = NonBlank[i].ip.text
                   /\ loaded.events[i].timestamp = StampOf(NonBlank[i]).at
                   /\ loaded.events[i].action =
                         (IF NonBlank[i].action = Absent THEN "ban"
                          ELSE NonBlank[i].action.text)

\* C14, as amended: load_actions is all-or-nothing: if any non-blank line
\* of the action log is malformed JSON, lacks ip, or has no timestamp
\* string in one of the accepted formats (taken from `timestamp`, or from
\* `ts` when `timestamp` is missing or empty), the load fails with an error
\* and yields no events at all; otherwise it returns exactly one
\* ActionEvent per non-blank line, in file order, with action defaulting to
\* ban when absent.
C14_AllOrNothing == AllOrNothing(BadLine)

\* C14, as written: the load fails exactly when some non-blank line is
\* malformed JSON, lacks ip, or has neither timestamp nor ts
C14_AsWritten == AllOrNothing(BadAsWritten)

\* C14 witness: a loadable line (action absent) followed by a line whose
\* timestamp is in no accepted format: the load ended in ValueError and
\* returned nothing, the event of the first line included
C14_Witness ==
    /\ Len(action_log) = 2
    /\ load_line(action_log[1]).error = "none"
    /\ action_log[1].action = Absent
    /\ action_log[2].kind = "object"
    /\ action_log[2].ip # Absent
    /\ action_log[2].timestamp = Str("yesterday")
    /\ loaded.outcome = "ValueError"
    /\ loaded.events = <<>>

\* ------------------------------------------------------------------------
\* action_logger.py: main, and the two on-disk formats written and read
\* back: the hook appends lines to the action log, load_actions reads the
\* log once the hooks have run, and the runs of the metrics tool rewrite and
\* re-read the history file.
\* ------------------------------------------------------------------------
\* datetime.strftime(fmt)
strftime(at, fmt) == Stamp(fmt, at)

\* mutant: the hook stamps datetime.isoformat(), with a UTC offset
hook_isoformat(now) == strftime(now, "%Y-%m-%dT%H:%M:%S.%f+00:00")

\* line 35: datetime.now(timezone.utc).strftime("%Y-%m-%dT%H:%M:%S.%fZ")
hook_timestamp(now) == strftime(now, "%Y-%m-%dT%H:%M:%S.%fZ")

\* the command lines the jail invokes the hook with (parse_args, lines 19-29)
HookArgs ==
    [action : {"ban", "unban"}, ip : {"10.0.0.5"}, jail : {"sshd"},
     reason : {""}, match_ts : {"Jan  1 00:00:00"}, log_line : {""},
     extra : {"", "x"}]

\* lines 34-43 and 47: the JSON line of the payload
hook_line(now, args) ==
    [kind |-> "object",
     timestamp |-> hook_timestamp(now),
     ts |-> Absent,
     ip |-> Str(args.ip),
     action |-> Str(args.action),
     jail |-> Str(args.jail),
     reason |-> Str(args.reason),
     match_ts |-> Str(args.match_ts),
     log_line |-> Str(args.log_line),
     extra |-> Str(args.extra)]

\* --- actions ----------------------------------------------------------------
\* action_logger.main: one line appended to the log; the clock has advanced
\* by one tick per line written
HookAppend ==
    /\ loaded = NotLoaded
    /\ Len(action_log) < MaxHookCalls
    /\ \E args \in HookArgs :
          action_log' = Append(action_log,
                               hook_line(Len(action_log) + 1, args))
    /\ UNCHANGED loaded
    /\ UNCHANGED notLogVars

NextRoundTrip ==
    \/ HookAppend
    \/ LoadActions
    \/ RunStart
    \/ HistoryRead
    \/ HistoryWrite
    \/ HistoryRepeatability
    \/ WriteMetrics

InitSpecRoundTrip ==
    IdleLog /\ IdleHistory /\ IdleSource /\ IdleReplay /\ IdleBlock
    /\ IdleDetect /\ IdleConfusion /\ IdleRace

SpecRoundTrip == InitSpecRoundTrip /\ [][NextRoundTrip]_vars

\* --- claims about the round trips --------------------------------------------
\* every line the hook can write
HookLines ==
    { hook_line(now, args) : now \in 1..MaxHookCalls, args \in HookArgs }

\* the history round trip: the array written is update_history's list, and
\* the next update_history reads back the array as written, before it
\* appends its own entry
C15_HistoryStep ==
    /\ (hist_pc = "write" /\ hist_pc' = "stats") =>
          history_file'.entries = history
    /\ (hist_pc = "read" /\ hist_pc' = "write") =>
          /\ SubSeq(history', 1, Len(history') - 1) = history_file.entries
          /\ history'[Len(history')] = run_entry

\* the action-log round trip, the fields an ActionEvent carries: the load
\* succeeds with one event per line written, and the event gives back the
\* line's timestamp, action, ip, jail and reason unchanged; it has no other
\* field
C15_LogFields ==
    loaded # NotLoaded =>
        /\ loaded.outcome = "returned"
        /\ Len(loaded.events) = Len(action_log)
        /\ \A i \in 1..Len(action_log) :
              LET event == loaded.events[i]
                  line == action_log[i]
              IN  /\ strftime(event.timestamp, "%Y-%m-%dT%H:%M:%S.%fZ")
                        = line.timestamp
                  /\ Str(event.action) = line.action
                  /\ Str(event.ip) = line.ip
                  /\ Str(event.jail) = line.jail
                  /\ ~event.reason.is_none
                  /\ Str(event.reason.text) = line.reason
                  /\ DOMAIN event =
                        {"timestamp", "ip", "action", "jail", "reason"}

====
